---------------------------- MODULE Spec2Model ----------------------------
(***************************************************************************)
(* A model of the scroll manager of polyx (the ScrollManager singleton of  *)
(* the dom package): persistent subscribers, one-time directional          *)
(* triggers, the requestAnimationFrame coalescing and the reset timers.    *)
(*                                                                         *)
(* The host (window, requestAnimationFrame, setTimeout, Date.now) is       *)
(* modelled by the variables windowY, frames, timers and now.  JavaScript  *)
(* runs every handler to completion: while a notification pass is running  *)
(* (pc # "idle") no other handler runs.  The callbacks a pass invokes are  *)
(* inputs of the program; each invocation is one step of the pass, in      *)
(* which the callback may call back into the manager's public interface.   *)
(*                                                                         *)
(* After the properties of the singleton come the pure functions of the    *)
(* core package (Maybe, compose and pipe, path) with a specification each, *)
(* whose initial states draw the inputs, and the manager that              *)
(* createScrollManager returns.                                            *)
(***************************************************************************)
EXTENDS Integers, Sequences, FiniteSets, TLC

(***************************************************************************)
(* Bounds of the model.                                                    *)
(***************************************************************************)
MaxY == 1           \* scroll offsets are 0..MaxY
NumCallbacks == 2   \* distinct subscriber functions
MaxAdds == 2        \* addOneTimeTrigger calls that register a trigger
MaxTicks == 1       \* clock advances
MaxRand == 0        \* Math.floor(Math.random() * 1000) is drawn from 0..MaxRand
OrderAdds == 3      \* addOneTimeTrigger calls in the runs of SpecOrder
OrderRand == 1      \* Math.random() draws 0..OrderRand in the runs of SpecOrder
StartTime == 1000   \* Date.now() when the page loads
TickMs == 400       \* one clock advance, in ms

(***************************************************************************)
(* Program constants.                                                      *)
(***************************************************************************)
minTriggerInterval == 300
DefaultDebounceInterval == 300

Callbacks == 1..NumCallbacks
Positions == 0..MaxY
Rands == 0..MaxRand

VARIABLES
    \* the host
    windowY,          \* window.scrollY
    now,              \* Date.now()
    frames,           \* requestAnimationFrame callbacks not yet run
    timers,           \* pending setTimeout callbacks: [h, obj, due]
    attached,         \* window has the manager's scroll listener
    \* the manager's private state
    subscribers,      \* Set of callbacks, in insertion order
    oneTimeTriggers,  \* Map id -> config, in insertion order
    isRunning,
    scrollY,
    lastScrollY,
    ticking,
    \* the notification pass in progress
    pc,               \* "idle", "subs" (subscribers.forEach), "trigs" (oneTimeTriggers.forEach)
    scrollData,       \* the sample of the pass
    subIdx,           \* entries subscribers.forEach has visited
    trigIdx,          \* entries oneTimeTriggers.forEach has visited
    \* budgets
    nAdds,            \* trigger objects created so far
    \* observation of the run (never read by the program)
    watch,            \* the observations this run keeps; the others stay as they start
    invoked,          \* the callback the last step invoked, if any
    batch,            \* raw scroll events handled since the last pass ended (at most 2 counted)
    passCalls,        \* invocations of each subscriber's registration in the pass in progress
    stayed,           \* subscribers registered when the pass began and not deleted since
    notifiedY,        \* the position of the previous notification pass
    cancelled,        \* callbacks whose unsubscribe has returned and that were not subscribed again
    removed,          \* trigger objects whose removeOneTimeTrigger has returned
    sawScroll,        \* requireActualScroll triggers registered while a raw scroll event was handled
    spent,            \* trigger objects invoked and not re-armed (by timer, reversal or explicit reset) since
    streakFired,      \* resetOnStop = false triggers invoked in their current run of own-direction notifications
    threw,            \* subscribers that threw in the pass in progress
    threwTrig,        \* trigger objects whose callback threw in the pass in progress
    called,           \* the call of the public interface the last step made (where recorded), with what it returned
    issued,           \* callbacks for which subscribe has returned an unsubscribe function
    usedFns,          \* callbacks whose returned unsubscribe function has been invoked
    heard,            \* registrations (<<"sub", callback>>, <<"trig", object>>) made before a raw scroll event the manager handled
    \* the pure functions of the library (Maybe, compose, pipe, path)
    calc              \* the inputs drawn for a pure function and, once applied, what it returned

progVars == << windowY, now, frames, timers, attached, subscribers, oneTimeTriggers,
               isRunning, scrollY, lastScrollY, ticking, pc, scrollData, subIdx,
               trigIdx, nAdds >>

obsVars == << watch, invoked, batch, passCalls, stayed, notifiedY, cancelled, removed,
              sawScroll, spent, streakFired, threw, threwTrig, called, issued, usedFns, heard >>

vars == << progVars, obsVars, calc >>

NoCall == [kind |-> "none", who |-> 0]
NoData == [y |-> 0, direction |-> "none", timestamp |-> 0]
NoPosition == 0 - 1
NoApi == [op |-> "none", arg |-> 0, ret |-> 0]
NoCalc == [fn |-> "none"]

\* An observation variable's next value: new when the run keeps observation o.
Keep(o, new, old) == IF o \in watch THEN new ELSE old

KeepAny(os, new, old) == IF os \cap watch # {} THEN new ELSE old

(***************************************************************************)
(* Sequences as insertion-ordered collections.                             *)
(***************************************************************************)
Range(s) == {s[i] : i \in 1..Len(s)}

RemoveAt(s, i) == [j \in 1..(Len(s) - 1) |-> IF j < i THEN s[j] ELSE s[j + 1]]

PosOf(s, x) == CHOOSE i \in 1..Len(s) : s[i] = x

Ids(trigs) == {trigs[i].id : i \in 1..Len(trigs)}

Objs(trigs) == {trigs[i].obj : i \in 1..Len(trigs)}

PosOfId(trigs, id) == CHOOSE i \in 1..Len(trigs) : trigs[i].id = id

PosOfObj(trigs, o) == CHOOSE i \in 1..Len(trigs) : trigs[i].obj = o

(***************************************************************************)
(* The state the manager's functions read and write, as one record.        *)
(***************************************************************************)
St == [windowY |-> windowY, frames |-> frames, timers |-> timers,
       attached |-> attached, subscribers |-> subscribers,
       oneTimeTriggers |-> oneTimeTriggers, isRunning |-> isRunning,
       scrollY |-> scrollY, lastScrollY |-> lastScrollY, ticking |-> ticking,
       subIdx |-> subIdx, trigIdx |-> trigIdx]

Commit(m) ==
    /\ windowY' = m.windowY
    /\ frames' = m.frames
    /\ timers' = m.timers
    /\ attached' = m.attached
    /\ subscribers' = m.subscribers
    /\ oneTimeTriggers' = m.oneTimeTriggers
    /\ isRunning' = m.isRunning
    /\ scrollY' = m.scrollY
    /\ lastScrollY' = m.lastScrollY
    /\ ticking' = m.ticking
    /\ subIdx' = m.subIdx
    /\ trigIdx' = m.trigIdx

(***************************************************************************)
(* The host's timers.                                                      *)
(***************************************************************************)
clearTimeout(ts, h) == {t \in ts : t.h # h}

\* setTimeout returns a handle no pending timer and no trigger holds.
NextHandle(m) ==
    LET used == {t.h : t \in m.timers}
                  \cup {m.oneTimeTriggers[i].resetTimeout : i \in 1..Len(m.oneTimeTriggers)}
    IN  CHOOSE h \in 1..(Cardinality(used) + 1) :
            /\ h \notin used
            /\ \A k \in 1..(h - 1) : k \in used

(***************************************************************************)
(* start, stop                                                             *)
(***************************************************************************)
start(m) ==
    IF m.isRunning THEN m
    ELSE [m EXCEPT !.attached = TRUE, !.isRunning = TRUE, !.scrollY = m.windowY]

stop(m) ==
    IF ~m.isRunning THEN m
    ELSE [m EXCEPT !.attached = FALSE, !.isRunning = FALSE]

(***************************************************************************)
(* handleScroll: the listener of the window's scroll event.                *)
(***************************************************************************)
MarkScrolled(trigs) ==
    [i \in 1..Len(trigs) |->
        IF trigs[i].requireActualScroll
        THEN [trigs[i] EXCEPT !.hasScrolled = TRUE]
        ELSE trigs[i]]

\* (a handleScroll that requests a frame for every event)
ScheduleFrame_Always(m) == [m EXCEPT !.frames = m.frames + 1, !.ticking = TRUE]

ScheduleFrame(m) ==
    IF ~m.ticking
    THEN [m EXCEPT !.frames = m.frames + 1, !.ticking = TRUE]
    ELSE m

\* (a handleScroll that records the position only when it requests a frame)
handleScroll_RecordsFirst(m) ==
    IF m.ticking THEN [m EXCEPT !.oneTimeTriggers = MarkScrolled(m.oneTimeTriggers)]
    ELSE ScheduleFrame([m EXCEPT !.scrollY = m.windowY,
                                 !.oneTimeTriggers = MarkScrolled(m.oneTimeTriggers)])

handleScroll(m) ==
    ScheduleFrame([m EXCEPT !.scrollY = m.windowY,
                            !.oneTimeTriggers = MarkScrolled(m.oneTimeTriggers)])

(***************************************************************************)
(* detectScrollDirection                                                   *)
(***************************************************************************)
\* (a comparison that reports an unchanged position as 'down')
Direction_NonStrict(y, last) == IF y >= last THEN "down" ELSE "up"

Direction(y, last) == IF y > last THEN "down" ELSE "up"

detectScrollDirection(m) == [m EXCEPT !.lastScrollY = m.scrollY]

(***************************************************************************)
(* Set.add, Set.delete and Map.delete while a forEach may be running: an   *)
(* entry deleted before its visit is not visited, an entry added before    *)
(* the loop ends is visited.                                               *)
(***************************************************************************)
SetAdd(s, c) == IF c \in Range(s) THEN s ELSE Append(s, c)

\* (an unsubscribe whose delete finds nothing to delete)
SetDelete_Keeps(m, c) == m

SetDelete(m, c) ==
    IF c \notin Range(m.subscribers) THEN m
    ELSE LET p == PosOf(m.subscribers, c)
         IN  [m EXCEPT !.subscribers = RemoveAt(m.subscribers, p),
                       !.subIdx = IF p <= m.subIdx THEN m.subIdx - 1 ELSE m.subIdx]

\* (a removal that only cancels the timer)
MapDelete_Keeps(m, id) == m

MapDelete(m, id) ==
    IF id \notin Ids(m.oneTimeTriggers) THEN m
    ELSE LET p == PosOfId(m.oneTimeTriggers, id)
         IN  [m EXCEPT !.oneTimeTriggers = RemoveAt(m.oneTimeTriggers, p),
                       !.trigIdx = IF p <= m.trigIdx THEN m.trigIdx - 1 ELSE m.trigIdx]

\* Map.set: an existing key keeps its place and gets the new value.
MapSet(trigs, cfg) ==
    IF cfg.id \in Ids(trigs)
    THEN [trigs EXCEPT ![PosOfId(trigs, cfg.id)] = cfg]
    ELSE Append(trigs, cfg)

(***************************************************************************)
(* subscribe, unsubscribe                                                  *)
(***************************************************************************)
SubscribeStarts(m) == Len(m.subscribers) = 1 /\ Len(m.oneTimeTriggers) = 0

\* An argument that is no function, such as 42 or undefined.
NotAFunction == 0

\* (a registration that does not check its argument)
IsFunction_Any(c) == TRUE

\* typeof callback === 'function'
IsFunction(c) == c # NotAFunction

subscribe(m, c) ==
    IF ~IsFunction(c) THEN m
    ELSE LET m1 == [m EXCEPT !.subscribers = SetAdd(m.subscribers, c)]
         IN  IF SubscribeStarts(m1) THEN start(m1) ELSE m1

\* What subscribe returns: () => {} or () => unsubscribe(callback), as the
\* call the function makes when it is invoked.
SubscribeReturns(c) ==
    IF ~IsFunction(c) THEN [op |-> "noop", arg |-> 0]
    ELSE [op |-> "unsubscribe", arg |-> c]

\* (the stop condition of a manager without triggers)
NothingLeft_SubscribersOnly(m) == Len(m.subscribers) = 0

NothingLeft(m) == Len(m.subscribers) = 0 /\ Len(m.oneTimeTriggers) = 0

unsubscribe(m, c) ==
    LET m1 == SetDelete(m, c)
    IN  IF NothingLeft(m1) THEN stop(m1) ELSE m1

(***************************************************************************)
(* addOneTimeTrigger, removeOneTimeTrigger, resetOneTimeTrigger,           *)
(* resetAllOneTimeTriggers, getScrollPosition                              *)
(***************************************************************************)
\* A trigger's callback, as an option: some function.
SomeFunction == 1

Options(d, ros, delay, ras, deb) ==
    [direction |-> d, callback |-> SomeFunction, resetOnStop |-> ros,
     resetDelay |-> delay, requireActualScroll |-> ras, debounceInterval |-> deb]

\* The options with no callback, or with one that is no function.
WithoutCallback(opt) == [opt EXCEPT !.callback = NotAFunction]

\* The option objects passed to addOneTimeTrigger: every value of every
\* option, in both directions.
TriggerOptions ==
    { Options("down", TRUE, TickMs, TRUE, DefaultDebounceInterval),
      Options("up", TRUE, TickMs, FALSE, 3 * DefaultDebounceInterval),
      Options("down", FALSE, TickMs, FALSE, DefaultDebounceInterval),
      Options("up", FALSE, TickMs, TRUE, DefaultDebounceInterval),
      Options("down", TRUE, 0, FALSE, 3 * DefaultDebounceInterval),
      Options("up", TRUE, 0, TRUE, DefaultDebounceInterval) }

\* addOneTimeTrigger({direction: 'down', resetDelay: ...}) and the like: no callback.
InvalidOptions ==
    {WithoutCallback(Options("down", TRUE, TickMs, TRUE, DefaultDebounceInterval))}

TriggerId(t, r) == << t, r >>

NewTrigger(opt, id, o) ==
    [id |-> id, obj |-> o,
     direction |-> opt.direction,
     hasTriggered |-> FALSE,
     resetOnStop |-> opt.resetOnStop,
     resetDelay |-> opt.resetDelay,
     resetTimeout |-> 0,
     requireActualScroll |-> opt.requireActualScroll,
     hasScrolled |-> ~opt.requireActualScroll,
     debounceInterval |-> opt.debounceInterval,
     lastReset |-> 0]

AddStarts(m) ==
    ~m.isRunning /\ Len(m.subscribers) = 0 /\ Len(m.oneTimeTriggers) = 1

addOneTimeTrigger(m, opt, id, o) ==
    IF ~IsFunction(opt.callback) THEN m
    ELSE LET m1 == [m EXCEPT !.oneTimeTriggers =
                        MapSet(m.oneTimeTriggers, NewTrigger(opt, id, o))]
         IN  IF AddStarts(m1) THEN start(m1) ELSE m1

\* return null, or return triggerId
Null == << >>

addOneTimeTriggerReturns(opt, id) == IF ~IsFunction(opt.callback) THEN Null ELSE id

removeOneTimeTrigger(m, id) ==
    LET m1 == IF id \in Ids(m.oneTimeTriggers)
                 /\ m.oneTimeTriggers[PosOfId(m.oneTimeTriggers, id)].resetTimeout # 0
              THEN [m EXCEPT !.timers =
                        clearTimeout(m.timers,
                            m.oneTimeTriggers[PosOfId(m.oneTimeTriggers, id)].resetTimeout)]
              ELSE m
        m2 == MapDelete(m1, id)
    IN  IF NothingLeft(m2) THEN stop(m2) ELSE m2

\* (a reset that forgets the timer without cancelling it)
ResetTrigger_KeepsTimer(m, p) ==
    [m EXCEPT !.oneTimeTriggers[p] =
        [m.oneTimeTriggers[p] EXCEPT !.hasTriggered = FALSE, !.resetTimeout = 0]]

ResetTrigger(m, p) ==
    LET t == m.oneTimeTriggers[p]
    IN  [m EXCEPT !.oneTimeTriggers[p] = [t EXCEPT !.hasTriggered = FALSE, !.resetTimeout = 0],
                  !.timers = IF t.resetTimeout # 0
                             THEN clearTimeout(m.timers, t.resetTimeout)
                             ELSE m.timers]

resetOneTimeTrigger(m, id) ==
    IF id \in Ids(m.oneTimeTriggers)
    THEN ResetTrigger(m, PosOfId(m.oneTimeTriggers, id))
    ELSE m

RECURSIVE ResetFrom(_, _)
ResetFrom(m, p) ==
    IF p > Len(m.oneTimeTriggers) THEN m ELSE ResetFrom(ResetTrigger(m, p), p + 1)

resetAllOneTimeTriggers(m) == ResetFrom(m, 1)

getScrollPosition(m) == detectScrollDirection(m)

\* The object getScrollPosition returns (without its timestamp).
getScrollPositionReturns(m) ==
    [y |-> m.scrollY, direction |-> Direction(m.scrollY, m.lastScrollY)]


(***************************************************************************)
(* What a callback does when it is invoked: nothing, throw, or call back   *)
(* into the manager before it returns.                                     *)
(***************************************************************************)
Noop == [op |-> "noop", arg |-> 0]

Behaviours(m) ==
    {Noop, [op |-> "throw", arg |-> 0]}
        \cup {[op |-> "unsubscribe", arg |-> c] : c \in Callbacks}
        \cup {[op |-> "subscribe", arg |-> c] : c \in Callbacks}
        \cup {[op |-> "remove", arg |-> id] : id \in Ids(m.oneTimeTriggers)}

RunCallback(m, b) ==
    CASE b.op = "unsubscribe" -> unsubscribe(m, b.arg)
      [] b.op = "subscribe" -> subscribe(m, b.arg)
      [] b.op = "remove" -> removeOneTimeTrigger(m, b.arg)
      [] OTHER -> m

\* (a subscriber invoked without try/catch)
SubscriberErrorEscapes_NoCatch(b) == b.op = "throw"

\* try { subscriber(scrollData) } catch (err) { console.error(...) }: whether
\* an exception thrown by the subscriber leaves the try statement.
SubscriberErrorEscapes(b) == FALSE

\* (a callback invoked without try/catch)
TriggerErrorEscapes_NoCatch(b) == b.op = "throw"

\* try { callback(scrollData) } catch (err) { console.error(...) }
TriggerErrorEscapes(b) == FALSE

(***************************************************************************)
(* processOneTimeTriggers: the body of oneTimeTriggers.forEach for the     *)
(* entry tc, with the sample sd at time t; b is what the callback does if  *)
(* it is invoked.                                                          *)
(***************************************************************************)
\* (the behaviour before requireActualScroll existed)
ShouldFire_IgnoresScroll(tc, sd) ==
    ~tc.hasTriggered /\ sd.direction = tc.direction

\* (a trigger that is not one-time)
ShouldFire_IgnoresTriggered(tc, sd) ==
    tc.hasScrolled /\ sd.direction = tc.direction

ShouldFire(tc, sd) ==
    ~tc.hasTriggered /\ tc.hasScrolled /\ sd.direction = tc.direction

CanReset(t, lastReset) == t - lastReset > minTriggerInterval

\* (a re-arm on any notification)
Opposite_Any(sd, tc) == sd.direction \in {"up", "down"}

Opposite(sd, tc) ==
    \/ sd.direction = "down" /\ tc.direction = "up"
    \/ sd.direction = "up" /\ tc.direction = "down"

\* The trigger object as the loop body sees it: the registry's record while
\* the object is registered, else the object as it was (removal changes no
\* field of it).
Current(m, tc) ==
    IF tc.obj \in Objs(m.oneTimeTriggers)
    THEN m.oneTimeTriggers[PosOfObj(m.oneTimeTriggers, tc.obj)]
    ELSE tc

Store(m, rec) ==
    IF rec.obj \in Objs(m.oneTimeTriggers)
    THEN [m EXCEPT !.oneTimeTriggers[PosOfObj(m.oneTimeTriggers, rec.obj)] = rec]
    ELSE m

\* (a setTimeout without the clearTimeout before it)
ScheduleReset_NoClear(m, rec, t) ==
    LET h == NextHandle(m)
    IN  [m |-> [m EXCEPT !.timers = m.timers \cup {[h |-> h, obj |-> rec.obj, due |-> t + rec.resetDelay]}],
         rec |-> [rec EXCEPT !.resetTimeout = h]]

\* if (triggerConfig.resetTimeout) clearTimeout(...); triggerConfig.resetTimeout = setTimeout(..., resetDelay)
ScheduleReset(m, rec, t) ==
    LET ts == IF rec.resetTimeout # 0 THEN clearTimeout(m.timers, rec.resetTimeout) ELSE m.timers
        m1 == [m EXCEPT !.timers = ts]
        h == NextHandle(Store(m1, [rec EXCEPT !.resetTimeout = 0]))
    IN  [m |-> [m1 EXCEPT !.timers = ts \cup {[h |-> h, obj |-> rec.obj, due |-> t + rec.resetDelay]}],
         rec |-> [rec EXCEPT !.resetTimeout = h]]

\* Lines 130-166: fire, or refresh the stop-detection timer.
FireOrRefresh(m, tc, sd, t, b) ==
    IF ShouldFire(tc, sd)
    THEN LET m1 == RunCallback(m, b)
             r1 == [Current(m1, tc) EXCEPT !.hasTriggered = TRUE]
         IN  IF tc.resetOnStop /\ tc.resetDelay # 0
             THEN ScheduleReset(m1, r1, t)
             ELSE [m |-> m1, rec |-> r1]
    ELSE IF tc.resetOnStop /\ tc.resetDelay # 0
         THEN ScheduleReset(m, tc, t)
         ELSE [m |-> m, rec |-> tc]

\* Lines 168-193: re-arm on a notification in the opposite direction.
ReversalRearms(tc, rec, sd, t) ==
    Opposite(sd, tc) /\ tc.hasTriggered /\ CanReset(t, rec.lastReset)

ReversalReset(s, tc, sd, t) ==
    IF ReversalRearms(tc, s.rec, sd, t)
    THEN [m |-> [s.m EXCEPT !.timers = IF s.rec.resetTimeout # 0
                                        THEN clearTimeout(s.m.timers, s.rec.resetTimeout)
                                        ELSE s.m.timers],
          rec |-> [s.rec EXCEPT !.hasTriggered = FALSE, !.lastReset = t, !.resetTimeout = 0]]
    ELSE s

ProcessTrigger(m, tc, sd, t, b) ==
    LET s == ReversalReset(FireOrRefresh(m, tc, sd, t, b), tc, sd, t)
    IN  Store(s.m, s.rec)


(***************************************************************************)
(* Initial state: the module has been loaded, nothing is registered.       *)
(***************************************************************************)
InitManager(w) ==
    /\ watch = w
    /\ windowY \in Positions
    /\ now = StartTime
    /\ frames = 0
    /\ timers = {}
    /\ attached = FALSE
    /\ subscribers = << >>
    /\ oneTimeTriggers = << >>
    /\ isRunning = FALSE
    /\ scrollY = 0
    /\ lastScrollY = 0
    /\ ticking = FALSE
    /\ pc = "idle"
    /\ scrollData = NoData
    /\ subIdx = 0
    /\ trigIdx = 0
    /\ nAdds = 0
    /\ invoked = NoCall
    /\ batch = 0
    /\ passCalls = [c \in Callbacks |-> 0]
    /\ stayed = {}
    /\ notifiedY = NoPosition
    /\ cancelled = {}
    /\ removed = {}
    /\ sawScroll = {}
    /\ spent = {}
    /\ streakFired = {}
    /\ threw = {}
    /\ threwTrig = {}
    /\ called = NoApi
    /\ issued = {}
    /\ usedFns = {}
    /\ heard = {}

InitWatching(w) == InitManager(w) /\ calc = NoCalc

Init == InitWatching({})

(***************************************************************************)
(* What a call b of the public interface, made in the current state, adds  *)
(* to the observation.                                                     *)
(***************************************************************************)
ObjOfId(trigs, id) == trigs[PosOfId(trigs, id)].obj

ObsCancelled(b) ==
    CASE b.op = "unsubscribe" \/ (b.op = "returned" /\ IsFunction(b.arg)) -> cancelled \cup {b.arg}
      [] b.op = "subscribe" -> cancelled \ {b.arg}
      [] OTHER -> cancelled

ObsRemoved(b) ==
    IF b.op = "remove" /\ b.arg \in Ids(oneTimeTriggers)
    THEN removed \cup {ObjOfId(oneTimeTriggers, b.arg)}
    ELSE removed

ObsStayed(b) == IF b.op = "unsubscribe" THEN stayed \ {b.arg} ELSE stayed

\* A callback subscribed anew is a new registration.
ObsPassCalls(calls, b) ==
    IF b.op = "subscribe" /\ b.arg \notin Range(subscribers)
    THEN [calls EXCEPT ![b.arg] = 0]
    ELSE calls

\* The registrations a raw scroll event handled now comes after.
Registered ==
    {<< "sub", c >> : c \in Range(subscribers)}
        \cup {<< "trig", o >> : o \in Objs(oneTimeTriggers)}

\* A callback subscribed anew is a registration no event was handled after.
ObsHeard(b) ==
    IF b.op = "subscribe" /\ b.arg \notin Range(subscribers)
    THEN heard \ {<< "sub", b.arg >>}
    ELSE heard

\* The trigger objects an explicit reset re-arms.
ResetObjs(b) ==
    CASE b.op = "reset" /\ b.arg \in Ids(oneTimeTriggers) -> {ObjOfId(oneTimeTriggers, b.arg)}
      [] b.op = "resetAll" -> Objs(oneTimeTriggers)
      [] OTHER -> {}

(***************************************************************************)
(* Calls of the public interface from outside a notification pass.         *)
(***************************************************************************)
Idle == pc = "idle"

\* The calls the observation records with what they return.
Recorded == {"subscribeInvalid", "addInvalid", "returned", "reset", "get"}

Call(m, b, ret) ==
    /\ Idle
    /\ Commit(m)
    /\ invoked' = NoCall
    /\ watch' = watch /\ calc' = calc
    /\ heard' = Keep("fresh", ObsHeard(b), heard)
    /\ called' = KeepAny({"calls", "handles"},
                         IF b.op \in Recorded
                         THEN [op |-> b.op, arg |-> b.arg, ret |-> ret]
                         ELSE NoApi, called)
    /\ issued' = Keep("handles", IF b.op = "subscribe" THEN issued \cup {b.arg} ELSE issued, issued)
    /\ usedFns' = Keep("handles", IF b.op = "returned" /\ b.arg \in issued
                              THEN usedFns \cup {b.arg} ELSE usedFns, usedFns)
    /\ cancelled' = Keep("cancel", ObsCancelled(b), cancelled)
    /\ removed' = Keep("cancel", ObsRemoved(b), removed)
    /\ spent' = Keep("rearm", spent \ ResetObjs(b), spent)
    /\ streakFired' = Keep("rearm", streakFired \ ResetObjs(b), streakFired)
    /\ UNCHANGED << now, pc, scrollData, nAdds, batch, passCalls, stayed,
                    notifiedY, sawScroll, threw, threwTrig >>

Subscribe(c) ==
    Call(subscribe(St, c), [op |-> "subscribe", arg |-> c], SubscribeReturns(c))

\* subscribe(42): console.error and return () => {}
SubscribeInvalid ==
    Call(subscribe(St, NotAFunction), [op |-> "subscribeInvalid", arg |-> NotAFunction],
         SubscribeReturns(NotAFunction))

\* The caller invokes the function subscribe(c) returned (where none was
\* returned yet, the step is the caller's unsubscribe(c)).
InvokeReturned(c) ==
    Call(RunCallback(St, SubscribeReturns(c)), [op |-> "returned", arg |-> c], 0)

Unsubscribe(c) == Call(unsubscribe(St, c), [op |-> "unsubscribe", arg |-> c], 0)

\* addOneTimeTrigger(opt), while fewer than budget triggers were created.
AddWithin(opt, r, budget) ==
    /\ Idle
    /\ nAdds < budget
    /\ Commit(addOneTimeTrigger(St, opt, TriggerId(now, r), nAdds + 1))
    /\ nAdds' = nAdds + 1
    /\ invoked' = NoCall
    /\ watch' = watch /\ calc' = calc
    /\ heard' = heard
    /\ called' = NoApi
    /\ UNCHANGED << issued, usedFns >>
    /\ UNCHANGED << now, pc, scrollData, batch, passCalls, stayed, notifiedY,
                    cancelled, removed, sawScroll, spent, streakFired, threw,
                    threwTrig >>

AddOneTimeTrigger(opt, r) == AddWithin(opt, r, MaxAdds)

\* addOneTimeTrigger({callback: undefined}): console.error and return null
AddOneTimeTriggerInvalid ==
    \E opt \in InvalidOptions, r \in Rands :
        Call(addOneTimeTrigger(St, opt, TriggerId(now, r), nAdds + 1),
             [op |-> "addInvalid", arg |-> 0],
             addOneTimeTriggerReturns(opt, TriggerId(now, r)))

RemoveOneTimeTrigger(id) ==
    Call(removeOneTimeTrigger(St, id), [op |-> "remove", arg |-> id], 0)

ResetOneTimeTrigger(id) ==
    Call(resetOneTimeTrigger(St, id), [op |-> "reset", arg |-> id], 0)

ResetAllOneTimeTriggers ==
    Call(resetAllOneTimeTriggers(St), [op |-> "resetAll", arg |-> 0], 0)

GetScrollPosition ==
    Call(getScrollPosition(St), [op |-> "get", arg |-> 0], getScrollPositionReturns(St))

(***************************************************************************)
(* The host: scrolling, the clock, timers.                                 *)
(***************************************************************************)
\* The page scrolls to y; the scroll event is dispatched to the listener.
HostScroll(y) ==
    /\ Idle
    /\ LET m == [St EXCEPT !.windowY = y]
       IN  Commit(IF attached THEN handleScroll(m) ELSE m)
    /\ batch' = Keep("coalescing", IF attached /\ batch < 2 THEN batch + 1 ELSE batch, batch)
    /\ sawScroll' = Keep("rearm", IF attached
                     THEN sawScroll \cup {oneTimeTriggers[i].obj : i \in
                              {j \in 1..Len(oneTimeTriggers) : oneTimeTriggers[j].requireActualScroll}}
                     ELSE sawScroll, sawScroll)
    /\ invoked' = NoCall
    /\ watch' = watch /\ calc' = calc
    /\ heard' = Keep("fresh", IF attached THEN heard \cup Registered ELSE heard, heard)
    /\ called' = NoApi
    /\ UNCHANGED << issued, usedFns >>
    /\ UNCHANGED << now, pc, scrollData, nAdds, passCalls, stayed, notifiedY,
                    cancelled, removed, spent, streakFired, threw, threwTrig >>

Tick ==
    /\ Idle
    /\ now < StartTime + MaxTicks * TickMs
    /\ now' = now + TickMs
    /\ invoked' = NoCall
    /\ watch' = watch /\ calc' = calc
    /\ heard' = heard
    /\ called' = NoApi
    /\ UNCHANGED << issued, usedFns >>
    /\ UNCHANGED << windowY, frames, timers, attached, subscribers, oneTimeTriggers,
                    isRunning, scrollY, lastScrollY, ticking, pc, scrollData,
                    subIdx, trigIdx, nAdds, batch, passCalls, stayed, notifiedY,
                    cancelled, removed, sawScroll, spent, streakFired, threw,
                    threwTrig >>

\* The reset timer's callback: hasTriggered = false; lastReset = Date.now()
ResetTimer(m, tm, t) ==
    LET m1 == [m EXCEPT !.timers = m.timers \ {tm}]
    IN  IF tm.obj \in Objs(m1.oneTimeTriggers)
        THEN LET p == PosOfObj(m1.oneTimeTriggers, tm.obj)
             IN  [m1 EXCEPT !.oneTimeTriggers[p] =
                     [m1.oneTimeTriggers[p] EXCEPT !.hasTriggered = FALSE, !.lastReset = t]]
        ELSE m1

TimerFire(tm) ==
    /\ Idle
    /\ tm \in timers
    /\ now >= tm.due
    /\ Commit(ResetTimer(St, tm, now))
    /\ spent' = Keep("rearm", spent \ {tm.obj}, spent)
    /\ invoked' = NoCall
    /\ watch' = watch /\ calc' = calc
    /\ heard' = heard
    /\ called' = NoApi
    /\ UNCHANGED << issued, usedFns >>
    /\ UNCHANGED << now, pc, scrollData, nAdds, batch, passCalls, stayed, notifiedY,
                    cancelled, removed, sawScroll, streakFired, threw, threwTrig >>

(***************************************************************************)
(* The animation frame: notifySubscribers, then ticking = false.           *)
(***************************************************************************)
FrameStart ==
    /\ Idle
    /\ frames > 0
    /\ frames' = frames - 1
    /\ scrollData' = [y |-> scrollY, direction |-> Direction(scrollY, lastScrollY),
                      timestamp |-> now]
    /\ lastScrollY' = detectScrollDirection(St).lastScrollY
    /\ pc' = "subs"
    /\ subIdx' = 0
    /\ invoked' = NoCall
    /\ watch' = watch /\ calc' = calc
    /\ heard' = heard
    /\ called' = NoApi
    /\ UNCHANGED << issued, usedFns >>
    /\ stayed' = Keep("coalescing", Range(subscribers), stayed)
    /\ threw' = {}
    /\ threwTrig' = {}
    /\ UNCHANGED << windowY, now, timers, attached, subscribers, oneTimeTriggers,
                    isRunning, scrollY, ticking, trigIdx, nAdds, batch, passCalls,
                    notifiedY, cancelled, removed, sawScroll, spent,
                    streakFired >>

\* An exception leaves the frame callback: the pass ends where it is.
Abort(m) ==
    /\ Commit([m EXCEPT !.subIdx = 0, !.trigIdx = 0])
    /\ pc' = "idle"
    /\ scrollData' = NoData

SubscriberStep(b) ==
    /\ pc = "subs"
    /\ subIdx < Len(subscribers)
    /\ LET c == subscribers[subIdx + 1]
           m == RunCallback([St EXCEPT !.subIdx = subIdx + 1], b)
       IN  /\ invoked' = [kind |-> "sub", who |-> c]
           /\ watch' = watch /\ calc' = calc
           /\ heard' = Keep("fresh", ObsHeard(b), heard)
           /\ called' = NoApi
           /\ UNCHANGED << issued, usedFns >>
           /\ passCalls' = Keep("coalescing", ObsPassCalls([passCalls EXCEPT ![c] = passCalls[c] + 1], b), passCalls)
           /\ threw' = Keep("errors", IF b.op = "throw" THEN threw \cup {c} ELSE threw, threw)
           /\ IF b.op = "throw" /\ SubscriberErrorEscapes(b)
              THEN Abort(m)
              ELSE Commit(m) /\ UNCHANGED << pc, scrollData >>
    /\ stayed' = Keep("coalescing", ObsStayed(b), stayed)
    /\ cancelled' = Keep("cancel", ObsCancelled(b), cancelled)
    /\ removed' = Keep("cancel", ObsRemoved(b), removed)
    /\ UNCHANGED << now, nAdds, batch, notifiedY, sawScroll, spent, streakFired,
                    threwTrig >>

SubscribersDone ==
    /\ pc = "subs"
    /\ subIdx = Len(subscribers)
    /\ pc' = "trigs"
    /\ subIdx' = 0
    /\ trigIdx' = 0
    /\ invoked' = NoCall
    /\ watch' = watch /\ calc' = calc
    /\ heard' = heard
    /\ called' = NoApi
    /\ UNCHANGED << issued, usedFns >>
    /\ UNCHANGED << windowY, now, frames, timers, attached, subscribers,
                    oneTimeTriggers, isRunning, scrollY, lastScrollY, ticking,
                    scrollData, nAdds, batch, passCalls, stayed, notifiedY,
                    cancelled, removed, sawScroll, spent, streakFired, threw,
                    threwTrig >>

TriggerStep(b) ==
    /\ pc = "trigs"
    /\ trigIdx < Len(oneTimeTriggers)
    /\ LET tc == oneTimeTriggers[trigIdx + 1]
           fire == ShouldFire(tc, scrollData)
           m0 == [St EXCEPT !.trigIdx = trigIdx + 1]
       IN  /\ fire \/ b = Noop
           /\ invoked' = IF fire THEN [kind |-> "trig", who |-> tc.obj] ELSE NoCall
           /\ watch' = watch /\ calc' = calc
           /\ heard' = Keep("fresh", ObsHeard(b), heard)
           /\ called' = NoApi
           /\ UNCHANGED << issued, usedFns >>
           /\ spent' = Keep("rearm", IF fire THEN spent \cup {tc.obj}
                       ELSE IF ReversalRearms(tc, tc, scrollData, now)
                            THEN spent \ {tc.obj}
                            ELSE spent, spent)
           /\ streakFired' = Keep("rearm", IF fire /\ ~tc.resetOnStop THEN streakFired \cup {tc.obj}
                             ELSE IF scrollData.direction # tc.direction
                                  THEN streakFired \ {tc.obj}
                                  ELSE streakFired, streakFired)
           /\ threwTrig' = Keep("errors", IF fire /\ b.op = "throw"
                                          THEN threwTrig \cup {tc.obj}
                                          ELSE threwTrig, threwTrig)
           /\ IF fire /\ b.op = "throw" /\ TriggerErrorEscapes(b)
              THEN Abort(m0)
              ELSE /\ Commit(ProcessTrigger(m0, tc, scrollData, now, b))
                   /\ UNCHANGED << pc, scrollData >>
    /\ stayed' = Keep("coalescing", ObsStayed(b), stayed)
    /\ cancelled' = Keep("cancel", ObsCancelled(b), cancelled)
    /\ removed' = Keep("cancel", ObsRemoved(b), removed)
    /\ UNCHANGED << now, nAdds, batch, passCalls, notifiedY, sawScroll, threw >>

FrameEnd ==
    /\ pc = "trigs"
    /\ trigIdx = Len(oneTimeTriggers)
    /\ ticking' = FALSE
    /\ pc' = "idle"
    /\ notifiedY' = Keep("direction", scrollData.y, notifiedY)
    /\ scrollData' = NoData
    /\ trigIdx' = 0
    /\ invoked' = NoCall
    /\ watch' = watch /\ calc' = calc
    /\ heard' = heard
    /\ called' = NoApi
    /\ UNCHANGED << issued, usedFns >>
    /\ batch' = Keep("coalescing", 0, batch)
    /\ passCalls' = Keep("coalescing", [c \in Callbacks |-> 0], passCalls)
    /\ stayed' = Keep("coalescing", {}, stayed)
    /\ threw' = {}
    /\ threwTrig' = {}
    /\ UNCHANGED << windowY, now, frames, timers, attached, subscribers,
                    oneTimeTriggers, isRunning, scrollY, lastScrollY, subIdx,
                    nAdds, cancelled, removed, sawScroll, spent, streakFired >>

UnknownId == << 0, 0 >>

Next ==
    \/ \E c \in Callbacks : Subscribe(c)
    \/ SubscribeInvalid
    \/ \E c \in Callbacks \cup {NotAFunction} : InvokeReturned(c)
    \/ \E c \in Callbacks : Unsubscribe(c)
    \/ \E opt \in TriggerOptions, r \in Rands : AddOneTimeTrigger(opt, r)
    \/ AddOneTimeTriggerInvalid
    \/ \E id \in Ids(oneTimeTriggers) \cup {UnknownId} : RemoveOneTimeTrigger(id)
    \/ \E id \in Ids(oneTimeTriggers) \cup {UnknownId} : ResetOneTimeTrigger(id)
    \/ ResetAllOneTimeTriggers
    \/ GetScrollPosition
    \/ \E y \in Positions : HostScroll(y)
    \/ Tick
    \/ \E tm \in timers : TimerFire(tm)
    \/ FrameStart
    \/ \E b \in Behaviours(St) : SubscriberStep(b)
    \/ SubscribersDone
    \/ \E b \in Behaviours(St) : TriggerStep(b)
    \/ FrameEnd

Spec == Init /\ [][Next]_vars

\* The same program, with one group of observations kept.
SpecCoalescing == InitWatching({"coalescing"}) /\ [][Next]_vars

SpecDirection == InitWatching({"direction"}) /\ [][Next]_vars

SpecCancel == InitWatching({"cancel"}) /\ [][Next]_vars

SpecRearm == InitWatching({"rearm"}) /\ [][Next]_vars

SpecErrors == InitWatching({"coalescing", "errors"}) /\ [][Next]_vars

SpecTriggerErrors == InitWatching({"errors"}) /\ [][Next]_vars

SpecCalls == InitWatching({"calls"}) /\ [][Next]_vars

\* The manager used for subscriptions only: no one-time trigger is registered.
NextSubscribers ==
    \/ \E c \in Callbacks : Subscribe(c)
    \/ \E c \in Callbacks : InvokeReturned(c)
    \/ \E c \in Callbacks : Unsubscribe(c)
    \/ \E y \in Positions : HostScroll(y)
    \/ FrameStart
    \/ \E b \in Behaviours(St) : SubscriberStep(b)
    \/ SubscribersDone
    \/ FrameEnd

SpecHandles == InitWatching({"handles"}) /\ [][NextSubscribers]_vars

\* The host runs a requested frame callback eventually, and a notification
\* pass, once begun, runs to its end.
SpecLive ==
    /\ InitWatching({"coalescing"})
    /\ [][NextSubscribers]_vars
    /\ WF_vars(FrameStart)
    /\ WF_vars(\E b \in Behaviours(St) : SubscriberStep(b))
    /\ WF_vars(SubscribersDone)
    /\ WF_vars(FrameEnd)

\* Registrations followed by notification passes whose callbacks return
\* normally: more triggers, and two values of the random part of the id.
OrderOptions ==
    { Options("down", FALSE, TickMs, FALSE, DefaultDebounceInterval),
      Options("up", TRUE, TickMs, TRUE, DefaultDebounceInterval) }

NextOrder ==
    \/ \E c \in Callbacks : Subscribe(c)
    \/ \E opt \in OrderOptions, r \in 0..OrderRand : AddWithin(opt, r, OrderAdds)
    \/ \E y \in Positions : HostScroll(y)
    \/ FrameStart
    \/ \E b \in {Noop} : SubscriberStep(b)
    \/ SubscribersDone
    \/ \E b \in {Noop} : TriggerStep(b)
    \/ FrameEnd

SpecOrder == Init /\ [][NextOrder]_vars

SpecFresh == InitWatching({"fresh"}) /\ [][NextOrder]_vars

\* One trigger and the passage of time in steps of the default debounce
\* interval: a trigger with the default debounceInterval, and one with none.
DebounceOptions ==
    { Options("up", FALSE, TickMs, FALSE, DefaultDebounceInterval),
      Options("down", FALSE, TickMs, FALSE, 0) }

\* ms milliseconds pass with nothing running.
Elapse(ms) ==
    /\ Idle
    /\ now + ms <= StartTime + MaxTicks * TickMs
    /\ now' = now + ms
    /\ invoked' = NoCall
    /\ called' = NoApi
    /\ UNCHANGED << windowY, frames, timers, attached, subscribers, oneTimeTriggers,
                    isRunning, scrollY, lastScrollY, ticking, pc, scrollData,
                    subIdx, trigIdx, nAdds, watch, batch, passCalls, stayed, notifiedY,
                    cancelled, removed, sawScroll, spent, streakFired, threw,
                    threwTrig, issued, usedFns, calc, heard >>

NextDebounce ==
    \/ \E opt \in DebounceOptions : AddWithin(opt, 0, 1)
    \/ \E y \in Positions : HostScroll(y)
    \/ Elapse(DefaultDebounceInterval)
    \/ FrameStart
    \/ SubscribersDone
    \/ \E b \in {Noop} : TriggerStep(b)
    \/ FrameEnd

SpecDebounce == Init /\ [][NextDebounce]_vars

TypeOK ==
    /\ windowY \in Positions /\ scrollY \in Positions /\ lastScrollY \in Positions
    /\ frames \in Nat /\ attached \in BOOLEAN /\ isRunning \in BOOLEAN
    /\ ticking \in BOOLEAN /\ pc \in {"idle", "subs", "trigs", "start", "frame"}
    /\ Range(subscribers) \subseteq Callbacks
    /\ subIdx \in 0..Len(subscribers) /\ trigIdx \in 0..Len(oneTimeTriggers)

(***************************************************************************)
(* Properties.                                                             *)
(***************************************************************************)
\* The trigger the oneTimeTriggers.forEach of the pass visits next.
Visiting == oneTimeTriggers[trigIdx + 1]

VisitsTrigger == pc = "trigs" /\ trigIdx < Len(oneTimeTriggers)

C2_DirectionFromLastNotified ==
    (pc # "idle" /\ notifiedY # NoPosition)
        => scrollData.direction = Direction(scrollData.y, notifiedY)

\* C3: A pass never invokes a callback whose unsubscribe has returned (and
\* that was not subscribed again), whether the unsubscribe came before the
\* pass or from a subscriber invoked earlier in the pass.
C3_NoCallAfterUnsubscribe ==
    [][(pc = "subs" /\ invoked'.kind = "sub") => invoked'.who \notin cancelled]_vars

\* A pass has finished its subscribers, invoking one, while another callback
\* is unsubscribed.
C3_Witness ==
    /\ pc = "subs"
    /\ subIdx = Len(subscribers)
    /\ invoked.kind = "sub"
    /\ cancelled # {}
    /\ frames = 0

\* C4: A pass never invokes the callback of a trigger whose
\* removeOneTimeTrigger has returned.
C4_NoCallAfterRemove ==
    [][(pc = "trigs" /\ invoked'.kind = "trig") => invoked'.who \notin removed]_vars

\* A pass invokes a trigger's callback after another trigger was removed.
C4_Witness ==
    /\ pc = "trigs"
    /\ invoked.kind = "trig"
    /\ removed # {}
    /\ invoked.who \notin removed

\* C5: The callback of a trigger registered with requireActualScroll = true
\* is invoked only if a raw scroll event was handled while the trigger was
\* registered.
C5_RequiresActualScroll ==
    [][(VisitsTrigger /\ invoked'.kind = "trig")
          => (Visiting.requireActualScroll => Visiting.obj \in sawScroll)]_vars

\* A pass whose frame was pending when the trigger was added has visited the
\* trigger, armed and in the sample's direction, and has not invoked it.
C5_Witness ==
    /\ pc = "trigs"
    /\ trigIdx > 0
    /\ invoked = NoCall
    /\ LET t == oneTimeTriggers[trigIdx]
       IN  /\ t.requireActualScroll
           /\ ~t.hasScrolled
           /\ ~t.hasTriggered
           /\ t.direction = scrollData.direction

C7_RearmRespectsDebounce ==
    [][(VisitsTrigger
          /\ Visiting.hasTriggered
          /\ Visiting.obj \in Objs(oneTimeTriggers')
          /\ ~oneTimeTriggers'[PosOfObj(oneTimeTriggers', Visiting.obj)].hasTriggered)
          => now - Visiting.lastReset >= Visiting.debounceInterval]_vars

\* C8: For a trigger with resetOnStop = false, in a run of consecutive
\* notifications in its own direction (no explicit reset), the callback is
\* invoked on the first notification that finds it armed and scrolled, and on
\* none of the following ones.
C8_FiresOncePerRun ==
    [][(VisitsTrigger /\ ~Visiting.resetOnStop /\ scrollData.direction = Visiting.direction)
          => /\ invoked'.kind = "trig" => Visiting.obj \notin streakFired
             /\ (~Visiting.hasTriggered /\ Visiting.hasScrolled) => invoked'.kind = "trig"]_vars

\* A later notification of the run has visited the fired trigger without
\* invoking it.
C8_Witness ==
    /\ pc = "trigs"
    /\ trigIdx > 0
    /\ invoked = NoCall
    /\ LET t == oneTimeTriggers[trigIdx]
       IN  /\ ~t.resetOnStop
           /\ t.obj \in streakFired
           /\ t.direction = scrollData.direction

\* C9: A fired trigger with resetOnStop = true has its reset timer pending,
\* whatever its reset delay: once the delay has elapsed with no further
\* notification the timer re-arms it.
C9_FiredTriggerHasResetTimer ==
    \A i \in 1..Len(oneTimeTriggers) :
        (oneTimeTriggers[i].resetOnStop /\ oneTimeTriggers[i].hasTriggered)
            => \E tm \in timers : /\ tm.obj = oneTimeTriggers[i].obj
                                  /\ tm.h = oneTimeTriggers[i].resetTimeout

\* C10: The scroll listener is attached if and only if a subscriber or a
\* trigger is registered.
C10_ListenerIffRegistered ==
    attached <=> (Len(subscribers) > 0 \/ Len(oneTimeTriggers) > 0)

\* Every trigger that was added has been removed, a subscriber has
\* unsubscribed, and the listener is detached.
C10_Witness ==
    /\ ~attached
    /\ nAdds = MaxAdds
    /\ subscribers = << >>
    /\ oneTimeTriggers = << >>
    /\ ticking

\* C11: Every pending reset timer belongs to a trigger that is in the
\* registry: no timer of a removed trigger is pending, wherever
\* removeOneTimeTrigger was called from.
C11_TimersOfRegisteredTriggers ==
    \A tm \in timers : tm.obj \in Objs(oneTimeTriggers)

\* C17: Every addOneTimeTrigger call that registers a trigger adds exactly one
\* entry to the registry: its identifier differs from the identifiers of the
\* triggers already registered, so it replaces none of them.
C17_AddNeverReplaces ==
    [][nAdds' = nAdds + 1 =>
          /\ Len(oneTimeTriggers') = Len(oneTimeTriggers) + 1
          /\ \A i \in 1..Len(oneTimeTriggers) : oneTimeTriggers'[i] = oneTimeTriggers[i]]_vars

\* The objects of the registry that are marked fired and, where the trigger
\* resets on stop with a delay, have their reset timer pending.
MarkedFired(o) ==
    LET t == oneTimeTriggers[PosOfObj(oneTimeTriggers, o)]
    IN  /\ t.hasTriggered
        /\ (t.resetOnStop /\ t.resetDelay # 0)
              => \E tm \in timers : tm.obj = o /\ tm.h = t.resetTimeout

\* C12: An exception thrown by a subscriber is caught. The pass in which a
\* subscriber threw goes on: once it processes the triggers, every subscriber
\* that stayed subscribed has been invoked once; and no pass ends with the
\* pending-frame flag still set.
C12_SubscriberErrorIsCaught ==
    /\ threw # {} => pc # "idle"
    /\ (pc = "trigs" /\ threw # {}) => \A c \in stayed : passCalls[c] = 1
    /\ (pc = "idle" /\ frames = 0) => ~ticking

\* The first subscriber threw, the second was invoked, and the pass has
\* processed a trigger.
C12_Witness ==
    /\ pc = "trigs"
    /\ Len(subscribers) = 2
    /\ subscribers[1] \in threw
    /\ subscribers[2] \notin threw
    /\ \A c \in stayed : passCalls[c] = 1
    /\ stayed = Callbacks
    /\ trigIdx > 0

\* C13: An exception thrown by a trigger's callback is caught. The pass goes
\* on with the other triggers, and the trigger that threw, while registered,
\* is marked fired with its reset timer pending as after a normal fire.
C13_TriggerErrorIsCaught ==
    /\ threwTrig # {} => pc = "trigs"
    /\ \A o \in threwTrig : o \in Objs(oneTimeTriggers) => MarkedFired(o)
    /\ (pc = "idle" /\ frames = 0) => ticking = FALSE

\* The first trigger threw and has its timer pending; the pass has gone on
\* to invoke the second trigger.
C13_Witness ==
    /\ pc = "trigs"
    /\ trigIdx = 2
    /\ oneTimeTriggers[1].obj \in threwTrig
    /\ oneTimeTriggers[1].resetTimeout # 0
    /\ oneTimeTriggers[2].obj \notin threwTrig
    /\ invoked = [kind |-> "trig", who |-> oneTimeTriggers[2].obj]

\* The manager's own state: the registries, the listener and the private
\* variables.
managerState ==
    << subscribers, oneTimeTriggers, attached, isRunning, scrollY, lastScrollY,
       ticking, timers, frames >>

\* C14: subscribe with an argument that is no function changes no state of
\* the manager (subscribers, triggers, listener) and returns a function whose
\* invocation changes no state either.
C14_InvalidSubscribeChangesNothing ==
    [][(called'.op = "subscribeInvalid"
          \/ (called'.op = "returned" /\ called'.arg = NotAFunction))
          => /\ UNCHANGED managerState
             /\ NotAFunction \notin Range(subscribers')
             /\ called'.op = "subscribeInvalid" => called'.ret.op = "noop"]_vars

\* subscribe(42) was called while a subscriber and a trigger are registered.
C14_Witness ==
    /\ called.op = "subscribeInvalid"
    /\ Len(subscribers) = 1
    /\ Len(oneTimeTriggers) = 1
    /\ attached

\* C15: addOneTimeTrigger with a callback that is no function returns null,
\* registers no trigger, does not attach the listener and changes no
\* subscriber and no trigger.
C15_InvalidAddChangesNothing ==
    [][called'.op = "addInvalid"
          => /\ called'.ret = Null
             /\ UNCHANGED managerState
             /\ nAdds' = nAdds]_vars

\* addOneTimeTrigger({}) was called on a manager with nothing registered: the
\* listener is not attached.
C15_Witness ==
    /\ called.op = "addInvalid"
    /\ called.ret = Null
    /\ subscribers = << >>
    /\ oneTimeTriggers = << >>
    /\ ~attached

\* C16: Invoking the function subscribe(callback) returned a second time
\* changes no state of the manager, whatever was called in between.
C16_ReturnedUnsubscribeIsIdempotent ==
    [][(called'.op = "returned" /\ called'.arg \in usedFns)
          => UNCHANGED managerState]_vars

\* C18: getScrollPosition changes no state of the manager, and two
\* consecutive calls return the same position and the same direction.
C18_GetScrollPositionIsReadOnly ==
    [][called'.op = "get"
          => /\ UNCHANGED managerState
             /\ called.op = "get" => called'.ret = called.ret]_vars

\* The trigger t0 after its reset, t1: armed, with no timer, else as it was.
C19_Reset(t0, t1) ==
    /\ ~t1.hasTriggered
    /\ \A tm \in timers' : tm.obj # t1.obj
    /\ t1 = [t0 EXCEPT !.hasTriggered = FALSE, !.resetTimeout = t1.resetTimeout]

\* C19: resetOneTimeTrigger(id) on a registered trigger sets hasTriggered to
\* false and leaves no reset timer pending for the trigger; the registry's
\* membership and order, the listener, the trigger's other fields (hasScrolled
\* and lastReset among them), the other triggers and their timers stay as
\* they are. On an unknown id nothing changes.
C19_ResetOneTimeTriggerFrame ==
    [][called'.op = "reset"
          => /\ UNCHANGED << subscribers, attached, isRunning, scrollY, lastScrollY,
                             ticking, frames >>
             /\ Len(oneTimeTriggers') = Len(oneTimeTriggers)
             /\ \A i \in 1..Len(oneTimeTriggers) :
                    IF oneTimeTriggers[i].id = called'.arg
                    THEN C19_Reset(oneTimeTriggers[i], oneTimeTriggers'[i])
                    ELSE oneTimeTriggers'[i] = oneTimeTriggers[i]
             /\ \A tm \in timers : tm \notin timers' =>
                    /\ called'.arg \in Ids(oneTimeTriggers)
                    /\ tm.obj = ObjOfId(oneTimeTriggers, called'.arg)
             /\ timers' \subseteq timers
             /\ called'.arg \notin Ids(oneTimeTriggers) => UNCHANGED managerState]_vars

\* A fired trigger whose reset timer was pending has been reset: it is armed,
\* its timer is gone, and another trigger's timer is still pending.
C19_Witness ==
    /\ called.op = "reset"
    /\ called.arg \in Ids(oneTimeTriggers)
    /\ Len(oneTimeTriggers) = 2
    /\ LET t == oneTimeTriggers[PosOfId(oneTimeTriggers, called.arg)]
       IN  /\ ~t.hasTriggered
           /\ t.lastReset # 0
           /\ t.hasScrolled
           /\ \A tm \in timers : tm.obj # t.obj
    /\ timers # {}

\* C20: Within a pass every subscriber is invoked before any trigger is
\* processed, and each trigger the pass visits was registered after the
\* trigger it visited before.
C20_SubscribersThenTriggersInOrder ==
    [][/\ invoked'.kind = "sub" => pc = "subs"
       /\ invoked'.kind = "trig" => pc = "trigs"
       /\ (pc = "subs" /\ pc' = "trigs") => subIdx = Len(subscribers)
       /\ (pc = "trigs" /\ pc' = "trigs" /\ trigIdx > 0 /\ trigIdx' = trigIdx + 1)
             => oneTimeTriggers[trigIdx].obj < oneTimeTriggers[trigIdx + 1].obj]_vars

(***************************************************************************)
(* Maybe (the exported object with the factory `of`).  A JavaScript value  *)
(* is null, undefined or a number of a small range; a Maybe is the pair of *)
(* the fields `value` and `isNothing` the factory computes (its methods    *)
(* are the operators below, which read `value` as the closures do).        *)
(***************************************************************************)
MaxValue == 1

JsNull == 0 - 1
JsUndefined == 0 - 2
Values == {JsNull, JsUndefined} \cup (0..MaxValue)

\* value === null || value === undefined
IsNullish(value) == value = JsNull \/ value = JsUndefined

MaybeOf(value) == [value |-> value, isNothing |-> IsNullish(value)]

\* map: fn => Maybe.of(value === null || value === undefined ? value : fn(value))
MaybeMap(m, fn) == MaybeOf(IF IsNullish(m.value) THEN m.value ELSE fn[m.value])

\* flatMap: fn => value === null || value === undefined ? Maybe.of(value) : fn(value)
MaybeFlatMap(m, fn) == IF IsNullish(m.value) THEN MaybeOf(m.value) ELSE fn[m.value]

\* chain(fn) { return this.flatMap(fn); }
MaybeChain(m, fn) == MaybeFlatMap(m, fn)

\* The functions handed to map, and the Maybe-returning ones handed to chain.
ValueFns == [Values -> Values]
MaybeFns == [Values -> {MaybeOf(v) : v \in Values}]

\* a => g(f(a))
ComposedFn(f, g) == [a \in Values |-> g[f[a]]]

InitMaybe ==
    /\ InitManager({})
    /\ windowY = 0
    /\ calc \in [fn : {"Maybe"}, a : Values, f : ValueFns, g : ValueFns]

\* x = Maybe.of(a); x.map(a => g(f(a))) and x.map(f).map(g)
MapBoth ==
    /\ calc.fn = "Maybe"
    /\ LET x == MaybeOf(calc.a)
       IN  calc' = [fn |-> "map", a |-> calc.a, f |-> calc.f, g |-> calc.g,
                    composed |-> MaybeMap(x, ComposedFn(calc.f, calc.g)),
                    chained |-> MaybeMap(MaybeMap(x, calc.f), calc.g)]
    /\ UNCHANGED << progVars, obsVars >>

\* The function a => Maybe.of(f(a)).
Lift(f) == [a \in Values |-> MaybeOf(f[a])]

\* Maybe.of(a).chain(f) and f(a), for f = a => Maybe.of(calc.f(a))
ChainOf ==
    /\ calc.fn = "Maybe"
    /\ calc' = [fn |-> "chain", a |-> calc.a, f |-> calc.f, g |-> calc.g,
                bound |-> MaybeChain(MaybeOf(calc.a), Lift(calc.f)),
                direct |-> Lift(calc.f)[calc.a]]
    /\ UNCHANGED << progVars, obsVars >>

NextMaybe == MapBoth \/ ChainOf

SpecMaybe == InitMaybe /\ [][NextMaybe]_vars

\* C21: Functor composition law of Maybe.  For every wrapped x (null and
\* undefined included) and all functions f, g over the value set,
\* x.map(a => g(f(a))) and x.map(f).map(g) hold the same value and the same
\* isNothing.
C21_FunctorComposition ==
    calc.fn = "map" =>
        /\ calc.composed.value = calc.chained.value
        /\ calc.composed.isNothing = calc.chained.isNothing

\* C22: Monad left identity of Maybe.  For every a (null and undefined
\* included) and every f returning a Maybe, Maybe.of(a).chain(f) has the same
\* value and the same isNothing as f(a).
C22_LeftIdentity ==
    calc.fn = "chain" =>
        /\ calc.bound.value = calc.direct.value
        /\ calc.bound.isNothing = calc.direct.isNothing

(***************************************************************************)
(* compose and pipe (src/core/compose.js).  The functions composed are the *)
(* unary functions over a small range of numbers.                          *)
(***************************************************************************)
MaxNum == 1
MaxFns == 3

Nums == 0..MaxNum

\* (f, g) => (...args) => f(g(...args))
ComposeStep(f, g) == [arg \in Nums |-> f[g[arg]]]

\* the reducer of compose used by pipe as well
PipeStep_RightToLeft(f, g) == [arg \in Nums |-> f[g[arg]]]

\* (f, g) => (...args) => g(f(...args))
PipeStep(f, g) == [arg \in Nums |-> g[f[arg]]]

\* fns.reduce(ComposeStep) without an initial value, from entry i on with
\* the accumulator acc
RECURSIVE ReduceCompose(_, _, _)
ReduceCompose(fns, i, acc) ==
    IF i > Len(fns) THEN acc ELSE ReduceCompose(fns, i + 1, ComposeStep(acc, fns[i]))

RECURSIVE ReducePipe(_, _, _)
ReducePipe(fns, i, acc) ==
    IF i > Len(fns) THEN acc ELSE ReducePipe(fns, i + 1, PipeStep(acc, fns[i]))

compose(fns) ==
    IF Len(fns) = 0 THEN [arg \in Nums |-> arg]
    ELSE IF Len(fns) = 1 THEN fns[1]
    ELSE ReduceCompose(fns, 2, fns[1])

pipe(fns) ==
    IF Len(fns) = 0 THEN [arg \in Nums |-> arg]
    ELSE IF Len(fns) = 1 THEN fns[1]
    ELSE ReducePipe(fns, 2, fns[1])

InitCompose ==
    /\ InitManager({})
    /\ windowY = 0
    /\ calc \in [fn : {"fns"}, x : Nums,
                 fns : UNION {[1..n -> [Nums -> Nums]] : n \in 0..MaxFns}]

\* compose(...fns)(x)
ApplyCompose ==
    /\ calc.fn = "fns"
    /\ calc' = [fn |-> "compose", fns |-> calc.fns, x |-> calc.x,
                out |-> compose(calc.fns)[calc.x]]
    /\ UNCHANGED << progVars, obsVars >>

\* pipe(...fns)(x)
ApplyPipe ==
    /\ calc.fn = "fns"
    /\ calc' = [fn |-> "pipe", fns |-> calc.fns, x |-> calc.x,
                out |-> pipe(calc.fns)[calc.x]]
    /\ UNCHANGED << progVars, obsVars >>

NextCompose == ApplyCompose \/ ApplyPipe

SpecCompose == InitCompose /\ [][NextCompose]_vars

\* f1(f2(...fn(x))) and fn(...f1(x)), written out.
RECURSIVE RightToLeft(_, _)
RightToLeft(fns, x) ==
    IF fns = << >> THEN x ELSE Head(fns)[RightToLeft(Tail(fns), x)]

RECURSIVE LeftToRight(_, _)
LeftToRight(fns, x) ==
    IF fns = << >> THEN x ELSE LeftToRight(Tail(fns), Head(fns)[x])

Reversed(fns) == [i \in 1..Len(fns) |-> fns[Len(fns) + 1 - i]]

\* C23: compose applies its functions right to left and pipe left to right:
\* compose(f1..fn)(x) = f1(f2(...fn(x))) and pipe(f1..fn)(x) = fn(...f1(x)),
\* so pipe(f1..fn) is compose(fn..f1); with no function at all either returns
\* x unchanged.
C23_ComposeRightPipeLeft ==
    /\ calc.fn = "compose" => calc.out = RightToLeft(calc.fns, calc.x)
    /\ calc.fn = "pipe" =>
          /\ calc.out = LeftToRight(calc.fns, calc.x)
          /\ calc.out = compose(Reversed(calc.fns))[calc.x]
    /\ calc.fn \in {"compose", "pipe"} /\ calc.fns = << >> => calc.out = calc.x

\* pipe was applied to three functions whose order matters: compose of the
\* same list returns something else.
C23_Witness ==
    /\ calc.fn = "pipe"
    /\ Len(calc.fns) = 3
    /\ calc.out # compose(calc.fns)[calc.x]
    /\ calc.out = calc.fns[3][calc.fns[2][calc.fns[1][calc.x]]]

(***************************************************************************)
(* path(obj).get (src/functional/path.js).  A JavaScript value is          *)
(* undefined, a string or a plain object (its own properties a function    *)
(* from keys to values); a path string is the sequence of its segments     *)
(* between the dots.  The inputs hold no array and no null.                *)
(***************************************************************************)
MaxDepth == 5

NoProps == [k \in {} |-> 0]
Undefined == [t |-> "undefined", s |-> "", props |-> NoProps]
StringOf(s) == [t |-> "string", s |-> s, props |-> NoProps]
ObjectOf(props) == [t |-> "object", s |-> "", props |-> props]

\* Object.prototype.hasOwnProperty.call(current, key)
HasOwn(current, key) == current.t = "object" /\ key \in DOMAIN current.props

\* current[key]
Prop(current, key) == IF HasOwn(current, key) THEN current.props[key] ELSE Undefined

\* pathStr.split('.').filter(Boolean)
Split(pathStr) == SelectSeq(pathStr, LAMBDA seg : seg # "")

\* The unwrapping after keys[i] was consumed.
Unwrap(current, keys, i) ==
    IF i < Len(keys) /\ current.t = "object"
    THEN LET data == IF Prop(current, "data") # Undefined /\ keys[i + 1] # "data"
                     THEN Prop(current, "data") ELSE current
         IN  IF Prop(data, "attributes") # Undefined /\ keys[i + 1] # "attributes"
             THEN Prop(data, "attributes") ELSE data
    ELSE current

\* The loop of get from index i (from 1) on.
RECURSIVE Traverse(_, _, _, _)
Traverse(current, keys, i, defaultValue) ==
    IF i > Len(keys) THEN (IF current # Undefined THEN current ELSE defaultValue)
    ELSE IF ~HasOwn(current, keys[i]) THEN defaultValue
    ELSE Traverse(Unwrap(current.props[keys[i]], keys, i), keys, i + 1, defaultValue)

get(obj, pathStr, defaultValue) ==
    IF obj = Undefined THEN defaultValue
    ELSE IF Len(Split(pathStr)) = 0 THEN obj
    ELSE Traverse(obj, Split(pathStr), 1, defaultValue)

\* The object { k1: { k2: ... { kn: leaf } } }.
RECURSIVE Nested(_, _)
Nested(keys, leaf) ==
    IF keys = << >> THEN leaf
    ELSE ObjectOf([k \in {Head(keys)} |-> Nested(Tail(keys), leaf)])

InitPath ==
    /\ InitManager({})
    /\ windowY = 0
    /\ calc \in [fn : {"path"}, leaf : {StringOf("Blog title")},
                 keys : UNION {[1..n -> {"data", "attributes", "blogs", "title"}]
                                 : n \in 1..MaxDepth}]

\* path(obj).get of the path that names every level and of the path without
\* the 'data' and 'attributes' levels.
GetBoth ==
    /\ calc.fn = "path"
    /\ LET obj == Nested(calc.keys, calc.leaf)
       IN  calc' = [fn |-> "get", keys |-> calc.keys, leaf |-> calc.leaf,
                    full |-> get(obj, calc.keys, Undefined),
                    short |-> get(obj, SelectSeq(calc.keys,
                                 LAMBDA k : k \notin {"data", "attributes"}), Undefined)]
    /\ UNCHANGED << progVars, obsVars >>

SpecPath == InitPath /\ [][GetBoth]_vars

\* C24: path(obj).get unwraps `data` and `attributes` wrappers: for
\* { data: { blogs: { data: { attributes: { title } } } } }, get('blogs.title')
\* returns the same as get('data.blogs.data.attributes.title').
C24_GetUnwraps ==
    calc.fn = "get" /\ calc.keys = << "data", "blogs", "data", "attributes", "title" >>
        => calc.short = calc.full

\* C25: Whenever the oneTimeTriggers.forEach of a pass visits a trigger that
\* has fired, the direction of the notification is the opposite of the
\* trigger's, and at least the trigger's debounceInterval has elapsed since
\* its last reset, the visit leaves the trigger armed (hasTriggered = false)
\* with lastReset equal to the time of the pass and with no reset timer
\* pending for it.
C25_ReversalRearmsAfterDebounce ==
    [][(VisitsTrigger
          /\ Opposite(scrollData, Visiting)
          /\ Visiting.hasTriggered
          /\ now - Visiting.lastReset >= Visiting.debounceInterval
          /\ Visiting.obj \in Objs(oneTimeTriggers'))
          => LET t == oneTimeTriggers'[PosOfObj(oneTimeTriggers', Visiting.obj)]
             IN  /\ ~t.hasTriggered
                 /\ t.lastReset = now
                 /\ t.resetTimeout = 0
                 /\ \A tm \in timers' : tm.obj # t.obj]_vars

\* C26: Registration alone never causes a notification.  A subscriber, or a
\* trigger with requireActualScroll = false, is invoked only when the manager
\* has handled a raw scroll event since that subscriber or trigger was
\* registered.
C26_InvokedOnlyAfterOwnScroll ==
    [][/\ invoked'.kind = "sub" => << "sub", invoked'.who >> \in heard
       /\ (VisitsTrigger /\ invoked'.kind = "trig" /\ ~Visiting.requireActualScroll)
             => << "trig", Visiting.obj >> \in heard]_vars

(***************************************************************************)
(* createScrollManager (src/dom/scrollManager.js): a manager of            *)
(* subscribers only, whose start notifies synchronously.  Its private      *)
(* state is the variables of the same names; pc = "start" while the        *)
(* notifySubscribers called by start runs, "frame" while the one of a      *)
(* frame callback runs.  (csm: the manager createScrollManager returns.)   *)
(***************************************************************************)
\* (a start that notifies whether or not it was already running)
StartNotifies_Always(before, after) == TRUE

\* start got past `if (isRunning) return`, so it calls notifySubscribers.
StartNotifies(before, after) == ~before.isRunning /\ after.isRunning

csmStart(m) ==
    IF m.isRunning THEN m
    ELSE [m EXCEPT !.attached = TRUE, !.isRunning = TRUE, !.scrollY = m.windowY]

csmSubscribe(m, c) ==
    IF ~IsFunction(c) THEN m
    ELSE LET m1 == [m EXCEPT !.subscribers = SetAdd(m.subscribers, c)]
         IN  IF Len(m1.subscribers) = 1 THEN csmStart(m1) ELSE m1

csmUnsubscribe(m, c) ==
    LET m1 == SetDelete(m, c)
    IN  IF Len(m1.subscribers) = 0 /\ m1.isRunning
        THEN [m1 EXCEPT !.attached = FALSE, !.isRunning = FALSE]
        ELSE m1

csmHandleScroll(m) ==
    IF ~m.ticking
    THEN [m EXCEPT !.scrollY = m.windowY, !.frames = m.frames + 1, !.ticking = TRUE]
    ELSE [m EXCEPT !.scrollY = m.windowY]

\* What a subscriber of this manager does when it is invoked.
csmRun(m, b) ==
    CASE b.op = "unsubscribe" -> csmUnsubscribe(m, b.arg)
      [] b.op = "subscribe" -> csmSubscribe(m, b.arg)
      [] OTHER -> m

\* A step of this manager: m is the private state it leaves, p the position
\* of the control, sd the sample of the pass, inv the callback invoked.
csmStep(m, p, sd, inv, calls, st) ==
    /\ Commit(m)
    /\ pc' = p
    /\ scrollData' = sd
    /\ invoked' = inv
    /\ passCalls' = Keep("coalescing", calls, passCalls)
    /\ stayed' = Keep("coalescing", st, stayed)
    /\ UNCHANGED << now, nAdds, watch, calc, heard, batch, notifiedY, cancelled,
                    removed, sawScroll, spent, streakFired, threw, threwTrig,
                    called, issued, usedFns >>

\* notifySubscribers up to its forEach: the sample, and lastScrollY = scrollY.
csmSample(m) ==
    [y |-> m.scrollY, direction |-> Direction(m.scrollY, m.lastScrollY), timestamp |-> now]

\* subscribe(c) called from outside a pass; where start runs, the call goes
\* on with the notification pass of start.
CsmSubscribe(c) ==
    /\ Idle
    /\ LET m == csmSubscribe(St, c)
       IN  IF StartNotifies(St, m)
           THEN csmStep([m EXCEPT !.lastScrollY = m.scrollY, !.subIdx = 0], "start",
                        csmSample(m), NoCall, [k \in Callbacks |-> 0], Range(m.subscribers))
           ELSE csmStep(m, pc, scrollData, NoCall, passCalls, stayed)

CsmUnsubscribe(c) ==
    /\ Idle
    /\ csmStep(csmUnsubscribe(St, c), pc, scrollData, NoCall, passCalls, stayed)

CsmScroll(y) ==
    /\ Idle
    /\ LET m == [St EXCEPT !.windowY = y]
       IN  csmStep(IF attached THEN csmHandleScroll(m) ELSE m, pc, scrollData, NoCall,
                   passCalls, stayed)

\* The frame callback begins: notifySubscribers()
CsmFrameStart ==
    /\ Idle
    /\ frames > 0
    /\ csmStep([St EXCEPT !.frames = frames - 1, !.lastScrollY = scrollY, !.subIdx = 0],
               "frame", csmSample(St), NoCall, [k \in Callbacks |-> 0], Range(subscribers))

\* subscribers.forEach visits the next entry; b is what the subscriber does.
\* An exception it throws is caught.  A start that notified from inside a
\* pass would nest a second pass ("nested"; no run gets there).
CsmSubscriberStep(b) ==
    /\ pc \in {"start", "frame"}
    /\ subIdx < Len(subscribers)
    /\ LET c == subscribers[subIdx + 1]
           m0 == [St EXCEPT !.subIdx = subIdx + 1]
           m == csmRun(m0, b)
       IN  csmStep(m, IF ~m0.isRunning /\ m.isRunning THEN "nested" ELSE pc, scrollData,
                   [kind |-> "sub", who |-> c],
                   ObsPassCalls([passCalls EXCEPT ![c] = passCalls[c] + 1], b),
                   ObsStayed(b))

\* The forEach is over: start returns to subscribe, which returns; the frame
\* callback sets ticking = false.
CsmPassDone ==
    /\ pc \in {"start", "frame"}
    /\ subIdx = Len(subscribers)
    /\ csmStep([St EXCEPT !.ticking = IF pc = "frame" THEN FALSE ELSE ticking, !.subIdx = 0],
               "idle", NoData, NoCall, [k \in Callbacks |-> 0], {})

NextCsm ==
    \/ \E c \in Callbacks : CsmSubscribe(c)
    \/ \E c \in Callbacks : CsmUnsubscribe(c)
    \/ \E y \in Positions : CsmScroll(y)
    \/ CsmFrameStart
    \/ \E b \in Behaviours(St) : CsmSubscriberStep(b)
    \/ CsmPassDone

SpecCsm == InitWatching({"coalescing"}) /\ [][NextCsm]_vars

\* C27: In a manager made by createScrollManager, the subscribe call that
\* attaches the listener (registry empty before, not after) notifies before it
\* returns: its pass samples the current position, invokes the new subscriber
\* first, invokes no registration twice and every subscriber that stays
\* subscribed exactly once; a subscribe made while the listener is attached
\* starts no pass, so it invokes no callback.
C27_AttachingSubscribeNotifies ==
    [][/\ (Idle /\ ~attached /\ Len(subscribers) = 0 /\ Len(subscribers') = 1)
             => /\ pc' = "start" /\ attached' /\ subIdx' = 0
                /\ scrollData'.y = windowY
       /\ (Idle /\ attached) => pc' # "start"
       /\ pc = "start" =>
             /\ subIdx = 0 /\ passCalls = [k \in Callbacks |-> 0] => invoked'.kind = "sub"
             /\ \A k \in Callbacks : passCalls'[k] <= 1
             /\ pc' = "idle" => \A k \in stayed : passCalls[k] = 1]_vars

\* The attaching subscribe call is about to return: its pass has invoked the
\* new subscriber and the one that subscriber subscribed, once each.
C27_Witness ==
    /\ pc = "start"
    /\ subIdx = 2 /\ Len(subscribers) = 2
    /\ passCalls = [k \in Callbacks |-> 1]
    /\ scrollData.y = windowY /\ windowY = MaxY

\* C28: Liveness of delivery.  With a host that eventually runs every frame
\* callback it was asked for, raw scroll events the manager has handled are
\* eventually followed by a notification pass; the sample of a pass holds the
\* position recorded last, which while the listener is attached is the
\* window's position; and ticking is true exactly while a frame callback is
\* pending or running.
C28_EventsAreDelivered ==
    /\ [](ticking <=> (frames > 0 \/ pc # "idle"))
    /\ [](pc # "idle" => /\ scrollData.y = scrollY
                         /\ attached => scrollData.y = windowY)
    /\ (batch > 0 /\ pc = "idle") ~> (pc = "subs")

\* The pass for two coalesced events, the second back at the top of the
\* page, has begun with the position of the second.
C28_Witness ==
    /\ pc = "subs" /\ subIdx = 0
    /\ batch = 2
    /\ Len(subscribers) = 2
    /\ scrollData.y = 0 /\ scrollData.direction = "up" /\ lastScrollY = 0
    /\ ticking /\ frames = 0

\* C29: Each trigger has at most one reset timer pending: the fire branch and
\* the stop-detection refresh cancel the trigger's timer before they schedule
\* one, and a step that re-arms a registered trigger (the timer itself, a
\* reversal, an explicit reset) leaves no timer of it pending.
C29_AtMostOneResetTimer ==
    [][/\ \A tm \in timers' : Cardinality({x \in timers' : x.obj = tm.obj}) = 1
       /\ \A i \in 1..Len(oneTimeTriggers) :
             LET t == oneTimeTriggers[i]
             IN  (/\ t.hasTriggered
                  /\ t.obj \in Objs(oneTimeTriggers')
                  /\ ~oneTimeTriggers'[PosOfObj(oneTimeTriggers', t.obj)].hasTriggered)
                 => \A tm \in timers' : tm.obj # t.obj]_vars

\* The visit of a trigger that had fired before, in its own direction again:
\* the stop-detection timer was scheduled anew, and it is the only one.
C29_Witness ==
    /\ pc = "trigs" /\ trigIdx > 0
    /\ invoked.kind = "none"
    /\ now = StartTime + TickMs
    /\ LET t == oneTimeTriggers[trigIdx]
       IN  /\ t.hasTriggered /\ t.resetOnStop
           /\ scrollData.direction = t.direction
           /\ {tm.due : tm \in {x \in timers : x.obj = t.obj}} = {now + t.resetDelay}
           /\ t.resetDelay = TickMs

\* C30: The direction a notification pass reports is 'up' or 'down': 'down'
\* exactly when the position is strictly greater than the one recorded at the
\* previous direction computation, 'up' otherwise, an unchanged position
\* included; the computation records the position, and a trigger is invoked
\* only on a pass of its own direction.
C30_DirectionIsStrictComparison ==
    [][/\ (pc = "idle" /\ pc' = "subs")
             => /\ scrollData'.direction \in {"up", "down"}
                /\ scrollData'.direction = "down" <=> scrollY > lastScrollY
                /\ scrollY = lastScrollY => scrollData'.direction = "up"
                /\ scrollData'.y = scrollY /\ lastScrollY' = scrollY
       /\ (VisitsTrigger /\ invoked'.kind = "trig")
             => Visiting.direction = scrollData.direction]_vars

\* An 'up' trigger has just been invoked by a pass at the position of the
\* pass before it.
C30_Witness ==
    /\ pc = "trigs" /\ trigIdx > 0
    /\ invoked.kind = "trig"
    /\ scrollData.direction = "up"
    /\ notifiedY = scrollData.y
    /\ LET t == oneTimeTriggers[trigIdx]
       IN  t.obj = invoked.who /\ t.direction = "up" /\ t.hasTriggered

=============================================================================
